---- MODULE Spec2Model ----
(***************************************************************************)
(* A model of the fundedlist pipeline: the keyword classifiers of          *)
(* scraper_v2.py and job_scraper.py, the scrape / deduplicate / save /     *)
(* export run of scraper_v2.main, the job generator and the downstream     *)
(* stages job_scraper.main and build_site.main, and the ranker.  Text is   *)
(* modelled by TLA+ strings, which TLC treats as sequences of characters   *)
(* (Len, SubSeq and \o apply).                                             *)
(***************************************************************************)
EXTENDS Integers, Sequences, FiniteSets, TLC

VARIABLES
    fn,        \* the classifier under call, "none" while scraper_v2.main runs
    arg,       \* its argument: [present |-> BOOLEAN, text |-> STRING]
    npieces,   \* how many pieces the argument was assembled from
    ret,       \* what the call returned (a label), raised, or Pending
    pc,        \* where scraper_v2.main stands
    feed,      \* scrape_rss_feeds: the index in RSS_FEEDS of the next feed
    companies, \* main: the combined list of company records
    unique_companies,  \* main: the deduplicated list (main's return value)
    errors,    \* the sources whose "Error scraping ..." line was printed
    db,        \* the rows of table funding in fundedlist.db, in rowid order
    json,      \* data/companies.json: [exists |-> BOOLEAN, companies |-> list]
    seed,      \* the state of the random module's generator at the call
    job_companies,  \* generate_sample_jobs: its argument companies
    jobs,      \* generate_sample_jobs: the list it returned
    jpc,       \* where the call of generate_sample_jobs stands
    earlier,   \* the call before this one: its seed, argument and result
    jobs_json,   \* data/jobs.json: [exists |-> BOOLEAN, jobs |-> list]
    vcs_json,    \* data/vcs.json: [exists |-> BOOLEAN, vcs |-> list]
    index_html,  \* index.html: [exists |-> BOOLEAN, companies, vcs |-> lists]
    stage,       \* the downstream stage that ran last, "none" before any
    records,   \* the ranker: its input sequence
    limit,     \* the ranker: its limit
    ranked,    \* the ranker: the list it returned
    rpc        \* where the call of the ranker stands

callVars == <<fn, arg, npieces, ret>>

mainVars == <<pc, feed, companies, unique_companies, errors, db, json>>

jobVars == <<seed, job_companies, jobs, jpc, earlier>>

siteVars == <<jobs_json, vcs_json, index_html, stage>>

rankVars == <<records, limit, ranked, rpc>>

vars == <<callVars, mainVars, jobVars, siteVars, rankVars>>

\* What a step of a classifier call leaves alone.
otherThanCall == <<mainVars, jobVars, siteVars, rankVars>>

\* What a step of scraper_v2.main leaves alone.
otherThanMain == <<callVars, jobVars, siteVars, rankVars>>

(***************************************************************************)
(* Python values                                                           *)
(***************************************************************************)

\* Python's None, as an argument: no text is present.
None == [present |-> FALSE, text |-> ""]

Str(s) == [present |-> TRUE, text |-> s]

\* The call has not returned yet.
Pending == "<pending>"

\* None.lower(): 'NoneType' object has no attribute 'lower'.
AttributeError == "<AttributeError>"

\* str.lower() on the ASCII letters: the lower-case letter of each upper-case one.
LowerOf ==
    [A |-> "a", B |-> "b", C |-> "c", D |-> "d", E |-> "e", F |-> "f", G |-> "g",
     H |-> "h", I |-> "i", J |-> "j", K |-> "k", L |-> "l", M |-> "m", N |-> "n",
     O |-> "o", P |-> "p", Q |-> "q", R |-> "r", S |-> "s", T |-> "t", U |-> "u",
     V |-> "v", W |-> "w", X |-> "x", Y |-> "y", Z |-> "z"]

\* str.lower() on one character: A-Z map to a-z, anything else is kept.
LowerChar(c) == IF c \in DOMAIN LowerOf THEN LowerOf[c] ELSE c

RECURSIVE Lower(_)
\* str.lower()
Lower(s) ==
    IF s = "" THEN ""
    ELSE LowerChar(SubSeq(s, 1, 1)) \o Lower(SubSeq(s, 2, Len(s)))

\* Python's `kw in text` on strings: kw is a contiguous substring of text.
Contains(kw, text) ==
    \E i \in 1..(Len(text) - Len(kw) + 1) : SubSeq(text, i, i + Len(kw) - 1) = kw

\* any(kw in text for kw in keywords)
AnyIn(keywords, text) ==
    \E j \in 1..Len(keywords) : Contains(keywords[j], text)

Min(S) == CHOOSE x \in S : \A y \in S : x <= y

(***************************************************************************)
(* scraper_v2.categorize_company                                           *)
(***************************************************************************)

\* The dict literal of categorize_company, in insertion order (the order a
\* Python dict iterates in).
categories == <<
    [category |-> "ai",
     keywords |-> <<"ai", "artificial intelligence", "machine learning", "ml",
                    "llm", "gpt", "neural", "deep learning">>],
    [category |-> "fintech",
     keywords |-> <<"fintech", "payment", "banking", "financial", "crypto",
                    "blockchain", "defi", "lending">>],
    [category |-> "health",
     keywords |-> <<"health", "medical", "biotech", "pharma", "clinical",
                    "patient", "healthcare", "drug">>],
    [category |-> "climate",
     keywords |-> <<"climate", "energy", "solar", "wind", "carbon",
                    "sustainable", "green", "ev", "battery">>],
    [category |-> "dev-tools",
     keywords |-> <<"developer", "devops", "api", "infrastructure", "cloud",
                    "security", "software", "saas">>] >>

\* categorize_company's loop running over the table from its end.
FirstCategory_Reversed(text_lower) ==
    LET hits == {i \in 1..Len(categories) : AnyIn(categories[i].keywords, text_lower)}
    IN  IF hits = {} THEN "other"
        ELSE categories[CHOOSE i \in hits : \A k \in hits : k <= i].category

\* The loop of categorize_company over text_lower: the first category, in
\* table order, one of whose keywords occurs in the text; 'other' if none.
FirstCategory(text_lower) ==
    LET hits == {i \in 1..Len(categories) : AnyIn(categories[i].keywords, text_lower)}
    IN  IF hits = {} THEN "other" ELSE categories[Min(hits)].category

\* categorize_company matching the text as it is written, not lower-cased.
categorize_company_CaseSensitive(text) ==
    IF ~text.present THEN AttributeError
    ELSE FirstCategory(text.text)

categorize_company(text) ==
    IF ~text.present THEN AttributeError
    ELSE FirstCategory(Lower(text.text))

(***************************************************************************)
(* job_scraper.categorize_department                                       *)
(***************************************************************************)

\* The if / elif chain of categorize_department, branch by branch.
departments == <<
    [department |-> "engineering",
     keywords |-> <<"engineer", "developer", "swe", "devops", "sre",
                    "architect", "data scientist">>],
    [department |-> "product",
     keywords |-> <<"product manager", "pm", "product lead", "product owner">>],
    [department |-> "design",
     keywords |-> <<"design", "ux", "ui", "creative">>],
    [department |-> "sales",
     keywords |-> <<"sales", "account", "business development", "bd", "gtm",
                    "revenue">>],
    [department |-> "sales",
     keywords |-> <<"marketing", "growth", "content", "brand",
                    "communications">>],
    [department |-> "operations",
     keywords |-> <<"operations", "ops", "finance", "hr", "people", "legal",
                    "admin">>] >>

\* categorize_department as a run of separate ifs that each overwrite the
\* result: the last matching branch decides.
FirstDepartment_LastBranchWins(title_lower) ==
    LET hits == {i \in 1..Len(departments) : AnyIn(departments[i].keywords, title_lower)}
    IN  IF hits = {} THEN "engineering"
        ELSE departments[CHOOSE i \in hits : \A k \in hits : k <= i].department

\* The first branch whose condition holds decides; the final return is
\* 'engineering'.
FirstDepartment(title_lower) ==
    LET hits == {i \in 1..Len(departments) : AnyIn(departments[i].keywords, title_lower)}
    IN  IF hits = {} THEN "engineering" ELSE departments[Min(hits)].department

categorize_department(title) ==
    IF ~title.present THEN AttributeError
    ELSE FirstDepartment(Lower(title.text))

(***************************************************************************)
(* scraper_v2: the helpers of the scrapers                                 *)
(***************************************************************************)

Max(S) == CHOOSE x \in S : \A y \in S : x >= y

\* s[:n]
Take(s, n) == SubSeq(s, 1, IF Len(s) < n THEN Len(s) ELSE n)

\* str.upper() on the ASCII letters.
UpperOf ==
    [a |-> "A", b |-> "B", c |-> "C", d |-> "D", e |-> "E", f |-> "F", g |-> "G",
     h |-> "H", i |-> "I", j |-> "J", k |-> "K", l |-> "L", m |-> "M", n |-> "N",
     o |-> "O", p |-> "P", q |-> "Q", r |-> "R", s |-> "S", t |-> "T", u |-> "U",
     v |-> "V", w |-> "W", x |-> "X", y |-> "Y", z |-> "Z"]

Digits == {"0", "1", "2", "3", "4", "5", "6", "7", "8", "9"}

\* What \s matches and str.strip() removes, among the characters of the
\* texts modelled.
Whitespace == {" ", "\t", "\n", "\r"}

\* str.strip()
Strip(s) ==
    LET kept == {i \in 1..Len(s) : SubSeq(s, i, i) \notin Whitespace}
    IN  IF kept = {} THEN "" ELSE SubSeq(s, Min(kept), Max(kept))

RSS_FEEDS == <<"https://vcnewsdaily.com/feed/",
               "https://techcrunch.com/category/venture/feed/">>

rounds == <<"Seed", "Pre-Seed", "Series A", "Series B", "Series C", "Series D",
            "Series E", "Series F", "Growth", "IPO">>

\* The first label of rounds, in list order, whose lower-cased form occurs
\* in the lower-cased text; "Funding" if none does.
parse_round_type(text) ==
    LET text_lower == Lower(text)
        hits == {i \in 1..Len(rounds) : Contains(Lower(rounds[i]), text_lower)}
    IN  IF hits = {} THEN "Funding" ELSE rounds[Min(hits)]

funding_keywords == <<"raise", "funding", "series", "seed", "million", "billion",
                      "investment", "round">>

\* any(kw in title.lower() or kw in summary.lower() for kw in funding_keywords)
FundingRelated(title, summary) ==
    \E j \in 1..Len(funding_keywords) :
        \/ Contains(funding_keywords[j], Lower(title))
        \/ Contains(funding_keywords[j], Lower(summary))

\* The character class [A-Za-z0-9\s\.] of the company-name pattern.
NameChars ==
    DOMAIN LowerOf \cup DOMAIN UpperOf \cup Digits \cup Whitespace \cup {"."}

\* re.match(r'^([A-Za-z0-9\s\.]+)', title): the length of the longest prefix
\* of title made of NameChars (the + is greedy); 0 when there is no match.
NameMatchLen(title) ==
    Max({n \in 0..Len(title) : \A i \in 1..n : SubSeq(title, i, i) \in NameChars})

\* The first 20 entries of a feed are read.
EntryLimit == 20

\* title[:30] and text[:30], the name when nothing better is found.
NameLimit == 30

\* summary[:150]
TaglineLimit == 150

\* name_match.group(1).strip() if name_match else title[:30]
company_name(title) ==
    IF NameMatchLen(title) > 0 THEN Strip(Take(title, NameMatchLen(title)))
    ELSE Take(title, NameLimit)

\* The record scrape_rss_feeds appends for a funding-related entry.  The
\* fields amount, link and published are stored with it and decide nothing;
\* they are left out.
FeedRecord(entry, feed_url) ==
    [name |-> company_name(entry.title),
     round |-> parse_round_type(entry.title \o " " \o entry.summary.text),
     tagline |-> Take(entry.summary.text, TaglineLimit),
     category |-> categorize_company(entry.summary),
     source |-> feed_url]

RECURSIVE ScrapeEntries(_, _, _)
\* The loop of scrape_rss_feeds over the entries of one feed, inside its
\* try: the records appended to acc, and whether an entry raised (its
\* summary is no string, so summary.lower() or title + ' ' + summary
\* raises), which ends the loop and keeps what was appended before.
ScrapeEntries(entries, feed_url, acc) ==
    IF entries = <<>> THEN [companies |-> acc, raised |-> FALSE]
    ELSE LET entry == Head(entries)
         IN  IF ~entry.summary.present
             THEN [companies |-> acc, raised |-> TRUE]
             ELSE IF ~FundingRelated(entry.title, entry.summary.text)
             THEN ScrapeEntries(Tail(entries), feed_url, acc)
             ELSE ScrapeEntries(Tail(entries), feed_url,
                                Append(acc, FeedRecord(entry, feed_url)))

\* The test scrape_startups_gallery puts on the text of a row.
IsFundingRow(text) ==
    /\ Contains("$", text)
    /\ \/ Contains("million", Lower(text))
       \/ Contains("billion", Lower(text))
       \/ Contains("M", text)
       \/ Contains("B", text)

\* The record scrape_startups_gallery appends for a row (amount left out).
GalleryRecord(row) ==
    [name |-> IF row.links # <<>> THEN Strip(row.links[1])
              ELSE Take(row.text, NameLimit),
     round |-> parse_round_type(row.text),
     tagline |-> "",
     category |-> categorize_company(Str(row.text)),
     source |-> "startups.gallery"]

RECURSIVE ScrapeRows(_, _)
\* The loop of scrape_startups_gallery over the rows of the page.
ScrapeRows(rows, acc) ==
    IF rows = <<>> THEN acc
    ELSE IF IsFundingRow(Head(rows).text)
    THEN ScrapeRows(Tail(rows), Append(acc, GalleryRecord(Head(rows))))
    ELSE ScrapeRows(Tail(rows), acc)

(***************************************************************************)
(* scraper_v2.main: deduplicate, save, export                              *)
(***************************************************************************)

RECURSIVE DedupLoop(_, _, _)
\* The loop of main over companies with the set seen and the list
\* unique_companies.  company['name'] raises KeyError on a record without
\* a name.
DedupLoop(rest, seen, unique) ==
    IF rest = <<>> THEN [raised |-> FALSE, unique |-> unique]
    ELSE LET company == Head(rest)
         IN  IF "name" \notin DOMAIN company
             THEN [raised |-> TRUE, unique |-> unique]
             ELSE LET name_lower == Lower(company.name)
                  IN  IF name_lower \notin seen
                      THEN DedupLoop(Tail(rest), seen \cup {name_lower},
                                     Append(unique, company))
                      ELSE DedupLoop(Tail(rest), seen, unique)

RECURSIVE DedupLoop_CaseSensitive(_, _, _)
\* The loop remembering and testing the names as written.
DedupLoop_CaseSensitive(rest, seen, unique) ==
    IF rest = <<>> THEN [raised |-> FALSE, unique |-> unique]
    ELSE LET company == Head(rest)
         IN  IF "name" \notin DOMAIN company
             THEN [raised |-> TRUE, unique |-> unique]
             ELSE IF company.name \notin seen
                  THEN DedupLoop_CaseSensitive(Tail(rest), seen \cup {company.name},
                                               Append(unique, company))
                  ELSE DedupLoop_CaseSensitive(Tail(rest), seen, unique)

Deduplicate_CaseSensitive(list) == DedupLoop_CaseSensitive(list, {}, <<>>)

RECURSIVE Reverse(_)
Reverse(list) ==
    IF list = <<>> THEN <<>> ELSE Append(Reverse(Tail(list)), Head(list))

\* A pass that keeps, for each name, the record seen last.
Deduplicate_KeepsLast(list) ==
    LET got == DedupLoop(Reverse(list), {}, <<>>)
    IN  [raised |-> got.raised, unique |-> Reverse(got.unique)]

\* The loop running over companies[:-1]: the last record is never looked at.
Deduplicate_SkipsLast(list) ==
    DedupLoop(SubSeq(list, 1, Len(list) - 1), {}, <<>>)

\* seen = set(); unique_companies = []; for company in companies: ...
Deduplicate(list) == DedupLoop(list, {}, <<>>)

\* A NULL column, the value of company.get(key) for a missing key.
NULL == "<NULL>"

\* dict.get(key, default)
Get(company, key, default) ==
    IF key \in DOMAIN company THEN company[key] ELSE default

\* The row save_to_database inserts for a company (funding_amount and
\* scraped_at left out); its rowid is its place in db.
FundingRow(company) ==
    [name |-> company.name,
     round_type |-> Get(company, "round", NULL),
     description |-> Get(company, "tagline", NULL),
     category |-> Get(company, "category", NULL),
     source |-> Get(company, "source", NULL)]

RECURSIVE Replace(_, _, _)
\* str.replace(old, new) for a one-character old
Replace(s, old, new) ==
    IF s = "" THEN ""
    ELSE (IF SubSeq(s, 1, 1) = old THEN new ELSE SubSeq(s, 1, 1))
         \o Replace(SubSeq(s, 2, Len(s)), old, new)

RECURSIVE TitleFrom(_, _)
\* str.title(): a letter is upper-cased after a character that is no
\* letter (or at the start) and lower-cased after a letter.
TitleFrom(s, afterLetter) ==
    IF s = "" THEN ""
    ELSE LET c == SubSeq(s, 1, 1)
             isLetter == c \in DOMAIN LowerOf \cup DOMAIN UpperOf
             out == IF ~isLetter THEN c
                    ELSE IF afterLetter THEN LowerChar(c)
                    ELSE IF c \in DOMAIN UpperOf THEN UpperOf[c] ELSE c
         IN  out \o TitleFrom(SubSeq(s, 2, Len(s)), isLetter)

Title(s) == TitleFrom(s, FALSE)

\* company.get('id') or f"company-{i+1}", i counted from 0: here i is the
\* place of the record counted from 1.  An empty id is falsy.
ExportId(company, i) ==
    IF Get(company, "id", "") # "" THEN company.id
    ELSE "company-" \o ToString(i)

\* The record as export_to_json leaves it: id, daysAgo, tags and investors
\* are set on the dict itself.
Exported(company, i) ==
    [id |-> ExportId(company, i),
     daysAgo |-> "1d ago",
     tags |-> <<Title(Replace(Get(company, "category", "other"), "-", " "))>>,
     investors |-> Get(company, "investors", <<>>)] @@ company

ExportAll(list) == [i \in 1..Len(list) |-> Exported(list[i], i)]

(***************************************************************************)
(* Calls of the classifiers on assembled text                              *)
(***************************************************************************)

\* The largest number of pieces an argument is assembled from.
MaxPieces == 2

Range(seq) == {seq[i] : i \in 1..Len(seq)}

CompanyKeywords == UNION {Range(categories[i].keywords) : i \in 1..Len(categories)}

DepartmentKeywords == UNION {Range(departments[i].keywords) : i \in 1..Len(departments)}

\* Text around and between keywords: separators, words holding no keyword,
\* and keywords in upper and mixed case.
CompanyFillers == {" ", "-", "xyz", "AI", "Solar"}

DepartmentFillers == {" ", "-", "xyz", "UX", "Sales"}

Classifiers == {"categorize_company", "categorize_department"}

RECURSIVE Upper(_)
\* str.upper()
Upper(s) ==
    IF s = "" THEN ""
    ELSE LET c == SubSeq(s, 1, 1)
         IN  (IF c \in DOMAIN UpperOf THEN UpperOf[c] ELSE c)
             \o Upper(SubSeq(s, 2, Len(s)))

\* The labels of parse_round_type as written, in lower and in upper case.
RoundLabels ==
    UNION {{rounds[i], Lower(rounds[i]), Upper(rounds[i])} : i \in 1..Len(rounds)}

\* Text around the labels that holds none of them.
RoundFillers == {" ", "raises", "$5M"}

Pieces(f) ==
    IF f = "categorize_company" THEN CompanyKeywords \cup CompanyFillers
    ELSE IF f = "parse_round_type" THEN RoundLabels \cup RoundFillers
    ELSE DepartmentKeywords \cup DepartmentFillers

\* scraper_v2.main is not running: nothing scraped, no database, no file.
MainIdle ==
    /\ pc = "idle"
    /\ feed = 1
    /\ companies = <<>>
    /\ unique_companies = <<>>
    /\ errors = {}
    /\ db = <<>>
    /\ json = [exists |-> FALSE, companies |-> <<>>]

\* No classifier is under call.
CallIdle ==
    /\ fn = "none"
    /\ arg = None
    /\ npieces = 0
    /\ ret = Pending

\* No call of generate_sample_jobs has been made.
NoCall == [ran |-> FALSE, seed |-> 0, companies |-> <<>>, jobs |-> <<>>]

\* generate_sample_jobs is not under call.
JobsIdle ==
    /\ seed = 0
    /\ job_companies = <<>>
    /\ jobs = <<>>
    /\ jpc = "idle"
    /\ earlier = NoCall

\* The downstream stages have not run: none of their files exists.
SiteIdle ==
    /\ jobs_json = [exists |-> FALSE, jobs |-> <<>>]
    /\ vcs_json = [exists |-> FALSE, vcs |-> <<>>]
    /\ index_html = [exists |-> FALSE, companies |-> <<>>, vcs |-> <<>>]
    /\ stage = "none"

\* The ranker is not under call.
RankIdle ==
    /\ records = <<>>
    /\ limit = 0
    /\ ranked = <<>>
    /\ rpc = "idle"

InitCall ==
    /\ fn \in Classifiers
    /\ arg \in {None, Str("")}
    /\ npieces = 0
    /\ ret = Pending
    /\ MainIdle
    /\ JobsIdle
    /\ SiteIdle
    /\ RankIdle

\* The caller assembles the text it will classify.
Extend ==
    /\ ret = Pending
    /\ arg.present
    /\ npieces < MaxPieces
    /\ \E p \in Pieces(fn) : arg' = Str(arg.text \o p)
    /\ npieces' = npieces + 1
    /\ UNCHANGED <<fn, ret>>
    /\ UNCHANGED otherThanCall

CallCategorizeCompany ==
    /\ fn = "categorize_company"
    /\ ret = Pending
    /\ ret' = categorize_company(arg)
    /\ UNCHANGED <<fn, arg, npieces>>
    /\ UNCHANGED otherThanCall

CallCategorizeDepartment ==
    /\ fn = "categorize_department"
    /\ ret = Pending
    /\ ret' = categorize_department(arg)
    /\ UNCHANGED <<fn, arg, npieces>>
    /\ UNCHANGED otherThanCall

NextCall ==
    \/ Extend
    \/ CallCategorizeCompany
    \/ CallCategorizeDepartment

SpecCall == InitCall /\ [][NextCall]_vars

\* A call of parse_round_type is being prepared.
InitRound ==
    /\ fn = "parse_round_type"
    /\ arg \in {None, Str("")}
    /\ npieces = 0
    /\ ret = Pending
    /\ MainIdle
    /\ JobsIdle
    /\ SiteIdle
    /\ RankIdle

\* The whole call; text.lower() raises on None.
CallParseRoundType ==
    /\ fn = "parse_round_type"
    /\ ret = Pending
    /\ ret' = IF arg.present THEN parse_round_type(arg.text) ELSE AttributeError
    /\ UNCHANGED <<fn, arg, npieces>>
    /\ UNCHANGED otherThanCall

NextRound ==
    \/ Extend
    \/ CallParseRoundType

SpecRound == InitRound /\ [][NextRound]_vars

(***************************************************************************)
(* Runs of scraper_v2.main                                                 *)
(***************************************************************************)

\* The most entries one source publishes at a time.
MaxEntries == 1

\* A run starts only while table funding holds fewer rows than this.
MaxRows == 2

\* An entry whose summary is no string: the loop of scrape_rss_feeds raises
\* on it.
MalformedEntry == [title |-> "Gamma funding", summary |-> None]

\* The entries of the feeds: funding news of Acme Inc (which the page of
\* startups.gallery spells acme inc) and of Beta, an entry that is no
\* funding news, and the malformed entry.
FeedPool ==
    {[title |-> "Acme Inc: $5M seed", summary |-> Str("AI payments")],
     [title |-> "Beta.io raises $2M", summary |-> Str("solar")],
     [title |-> "Weekly links", summary |-> Str("news")],
     MalformedEntry}

\* What the rows of startups.gallery/news may be: a funding row with a
\* link, and a row that names no amount.
RowPool ==
    {[text |-> "acme inc $3M Seed", links |-> <<" acme inc ">>],
     [text |-> "About us", links |-> <<>>]}

\* The lists of at most n elements of S
RECURSIVE SeqsUpTo(_, _)
SeqsUpTo(S, n) ==
    IF n = 0 THEN {<<>>}
    ELSE LET shorter == SeqsUpTo(S, n - 1)
         IN  shorter \cup {Append(q, x) : q \in shorter, x \in S}

\* What a feed may publish: up to MaxEntries entries, and possibly the
\* malformed entry after them.
Published ==
    LET lists == SeqsUpTo(FeedPool, MaxEntries)
    IN  lists \cup {Append(entries, MalformedEntry) : entries \in lists}

\* What the loop of scrape_rss_feeds makes of each thing feed number i may
\* publish (entries[:20] of it).
FeedOutcomes ==
    [i \in 1..Len(RSS_FEEDS) |->
        {ScrapeEntries(Take(entries, EntryLimit), RSS_FEEDS[i], <<>>) :
            entries \in Published}]

\* What the loop of scrape_startups_gallery makes of each thing the page
\* may show.
GalleryOutcomes == {ScrapeRows(rows, <<>>) : rows \in SeqsUpTo(RowPool, MaxEntries)}

Init ==
    /\ CallIdle
    /\ MainIdle
    /\ JobsIdle
    /\ SiteIdle
    /\ RankIdle

\* main() is called: companies = [], and scrape_rss_feeds starts.
StartMain ==
    /\ pc \in {"idle", "done"}
    /\ Len(db) < MaxRows
    /\ pc' = "rss"
    /\ feed' = 1
    /\ companies' = <<>>
    /\ unique_companies' = <<>>
    /\ errors' = {}
    /\ UNCHANGED <<db, json>>
    /\ UNCHANGED otherThanMain

\* After the last feed scrape_rss_feeds returns and main goes on to
\* scrape_startups_gallery.
AfterFeed == IF feed = Len(RSS_FEEDS) THEN "gallery" ELSE "rss"

\* One turn of the loop of scrape_rss_feeds in which feedparser.parse
\* raises: the except branch prints the error, nothing is appended.
ScrapeFeedUnavailable ==
    /\ pc = "rss"
    /\ errors' = errors \cup {RSS_FEEDS[feed]}
    /\ feed' = feed + 1
    /\ pc' = AfterFeed
    /\ UNCHANGED <<companies, unique_companies, db, json>>
    /\ UNCHANGED otherThanMain

\* One turn of the loop of scrape_rss_feeds in which the feed is parsed
\* and its first 20 entries are gone through.
ScrapeFeed ==
    /\ pc = "rss"
    /\ \E got \in FeedOutcomes[feed] :
         /\ companies' = companies \o got.companies
         /\ errors' = IF got.raised THEN errors \cup {RSS_FEEDS[feed]} ELSE errors
    /\ feed' = feed + 1
    /\ pc' = AfterFeed
    /\ UNCHANGED <<unique_companies, db, json>>
    /\ UNCHANGED otherThanMain

\* scrape_startups_gallery when requests.get raises.
ScrapeGalleryUnavailable ==
    /\ pc = "gallery"
    /\ errors' = errors \cup {"startups.gallery"}
    /\ pc' = "dedup"
    /\ UNCHANGED <<feed, companies, unique_companies, db, json>>
    /\ UNCHANGED otherThanMain

\* scrape_startups_gallery when the answer's status is not 200.
ScrapeGalleryNot200 ==
    /\ pc = "gallery"
    /\ pc' = "dedup"
    /\ UNCHANGED <<feed, companies, unique_companies, errors, db, json>>
    /\ UNCHANGED otherThanMain

\* main putting the rows of startups.gallery in front of the combined list.
ScrapeGallery_InFront ==
    /\ pc = "gallery"
    /\ \E got \in GalleryOutcomes : companies' = got \o companies
    /\ pc' = "dedup"
    /\ UNCHANGED <<feed, unique_companies, errors, db, json>>
    /\ UNCHANGED otherThanMain

\* scrape_startups_gallery when the page is served.
ScrapeGallery ==
    /\ pc = "gallery"
    /\ \E got \in GalleryOutcomes : companies' = companies \o got
    /\ pc' = "dedup"
    /\ UNCHANGED <<feed, unique_companies, errors, db, json>>
    /\ UNCHANGED otherThanMain

\* main saving and exporting whatever the deduplication pass leaves.
Dedup_AlwaysSaves ==
    /\ pc = "dedup"
    /\ LET got == Deduplicate(companies)
       IN  /\ unique_companies' = got.unique
           /\ pc' = IF got.raised THEN "KeyError" ELSE "save"
    /\ UNCHANGED <<feed, companies, errors, db, json>>
    /\ UNCHANGED otherThanMain

\* The deduplication pass of main, and its test `if unique_companies:`.
\* A KeyError ends main.
Dedup ==
    /\ pc = "dedup"
    /\ LET got == Deduplicate(companies)
       IN  /\ unique_companies' = got.unique
           /\ pc' = IF got.raised THEN "KeyError"
                    ELSE IF got.unique # <<>> THEN "save" ELSE "done"
    /\ UNCHANGED <<feed, companies, errors, db, json>>
    /\ UNCHANGED otherThanMain

\* save_to_database(unique_companies): one INSERT per company, committed.
SaveToDatabase ==
    /\ pc = "save"
    /\ db' = db \o [i \in 1..Len(unique_companies) |-> FundingRow(unique_companies[i])]
    /\ pc' = "export"
    /\ UNCHANGED <<feed, companies, unique_companies, errors, json>>
    /\ UNCHANGED otherThanMain

\* export_to_json(unique_companies): the records are completed in place and
\* the file is written anew; main then returns unique_companies.
ExportToJson ==
    /\ pc = "export"
    /\ unique_companies' = ExportAll(unique_companies)
    /\ json' = [exists |-> TRUE, companies |-> unique_companies']
    /\ pc' = "done"
    /\ UNCHANGED <<feed, companies, errors, db>>
    /\ UNCHANGED otherThanMain

Next ==
    \/ StartMain
    \/ ScrapeFeedUnavailable
    \/ ScrapeFeed
    \/ ScrapeGalleryUnavailable
    \/ ScrapeGalleryNot200
    \/ ScrapeGallery
    \/ Dedup
    \/ SaveToDatabase
    \/ ExportToJson

Spec == Init /\ [][Next]_vars

(***************************************************************************)
(* job_scraper.py: the job generator                                       *)
(***************************************************************************)

\* The catalogs of generate_sample_jobs, in the order of the dict's keys.
sample_titles ==
    <<[dept |-> "engineering",
       titles |-> <<"Senior Software Engineer", "ML Engineer",
                    "Backend Engineer", "Frontend Engineer",
                    "DevOps Engineer", "Data Engineer">>],
      [dept |-> "product",
       titles |-> <<"Product Manager", "Senior Product Manager",
                    "Product Lead">>],
      [dept |-> "design",
       titles |-> <<"Product Designer", "UX Designer", "Design Lead">>],
      [dept |-> "sales",
       titles |-> <<"Account Executive", "Sales Development Rep",
                    "Head of Sales", "Growth Marketing Manager">>],
      [dept |-> "operations",
       titles |-> <<"Operations Manager", "Finance Manager", "HR Manager",
                    "Executive Assistant">>]>>

locations ==
    <<"San Francisco, CA", "New York, NY", "Remote", "Austin, TX",
      "Seattle, WA", "Boston, MA">>

\* The random module draws from one generator, whose state every draw
\* advances: a draw is a function of that state and of nothing else.  The
\* generator of the library is stood for by a small congruential one.
RandomStep(g) == (g * 29 + 3) % 997

\* A draw below n: the value drawn and the state the generator is left in.
randbelow(g, n) == [value |-> RandomStep(g) % n, state |-> RandomStep(g)]

\* random.randint(a, b)
randint(g, a, b) ==
    LET r == randbelow(g, b - a + 1)
    IN  [value |-> a + r.value, state |-> r.state]

\* random.choice(seq)
choice(g, seq) ==
    LET r == randbelow(g, Len(seq))
    IN  [value |-> seq[r.value + 1], state |-> r.state]

\* num_jobs = random.randint(2, 4): the company's hiring flag is not read.
num_jobs_UpToFive(company, g) == randint(g, 2, 5)

num_jobs_MoreWhenHiring(company, g) ==
    IF Get(company, "isHiring", FALSE) THEN randint(g, 3, 5)
    ELSE randint(g, 2, 4)

num_jobs(company, g) == randint(g, 2, 4)

\* company.get('id'): the id, or None
IdOf(company) ==
    IF "id" \in DOMAIN company THEN Str(company.id) ELSE None

\* One pass of the inner loop: the job appended, and the generator after
\* its four draws.
SampleJob(company, job_id, g) ==
    LET dept == choice(g, sample_titles)
        title == choice(dept.state, dept.value.titles)
        location == choice(title.state, locations)
        posted == randint(location.state, 1, 7)
    IN  [job |-> [id |-> job_id,
                  companyId |-> IdOf(company),
                  title |-> title.value,
                  department |-> dept.value.dept,
                  location |-> location.value,
                  posted |-> ToString(posted.value) \o "d ago",
                  url |-> Get(company, "website", "#") \o "/careers"],
         state |-> posted.state]

RECURSIVE JobsOf(_, _, _, _, _)
\* for _ in range(num_jobs): n passes are left for this company
JobsOf(company, n, made, job_id, g) ==
    IF n = 0 THEN [jobs |-> made, job_id |-> job_id, state |-> g]
    ELSE LET one == SampleJob(company, job_id, g)
         IN  JobsOf(company, n - 1, Append(made, one.job), job_id + 1,
                    one.state)

RECURSIVE SampleLoop(_, _, _, _, _)
\* for company in companies: the jobs made so far, and the num_jobs drawn
\* for each company so far
SampleLoop(list, made, drawn, job_id, g) ==
    IF list = <<>> THEN [jobs |-> made, num_jobs |-> drawn]
    ELSE LET n == num_jobs(Head(list), g)
             got == JobsOf(Head(list), n.value, made, job_id, n.state)
         IN  SampleLoop(Tail(list), got.jobs, Append(drawn, n.value),
                        got.job_id, got.state)

\* generate_sample_jobs(companies), called with the generator in state g:
\* the list returned, with the values its local num_jobs took
generate_sample_jobs(list, g) == SampleLoop(list, <<>>, <<>>, 1, g)

MaxSeed == 5

MaxCompanies == 2

\* The states a caller's random.seed, or the start of the process, may
\* leave the generator in.
Seeds == 0..MaxSeed

\* Companies a caller may pass: flagged as hiring, the same company not
\* flagged, and one carrying neither id nor flag nor website.
CompanyPool ==
    {[id |-> "company-1", name |-> "Acme Inc", isHiring |-> TRUE,
      website |-> "https://acme.example"],
     [id |-> "company-1", name |-> "Acme Inc", isHiring |-> FALSE,
      website |-> "https://acme.example"],
     [name |-> "Gamma"]}

JobInputs == SeqsUpTo(CompanyPool, MaxCompanies)

\* What generate_sample_jobs returns for each argument and generator state.
SampleJobs ==
    [list \in JobInputs |-> [g \in Seeds |-> generate_sample_jobs(list, g)]]

\* A caller has set the generator and is about to call.
InitJobs ==
    /\ CallIdle
    /\ MainIdle
    /\ SiteIdle
    /\ RankIdle
    /\ seed \in Seeds
    /\ job_companies \in JobInputs
    /\ jobs = <<>>
    /\ jpc = "ready"
    /\ earlier = NoCall

\* The whole call, from a generator set anew inside it.
CallGenerateSampleJobs_Reseeds ==
    /\ jpc = "ready"
    /\ \E g \in Seeds : jobs' = SampleJobs[job_companies][g].jobs
    /\ jpc' = "returned"
    /\ UNCHANGED <<seed, job_companies, earlier>>
    /\ UNCHANGED <<callVars, mainVars, siteVars, rankVars>>

\* The whole call jobs = generate_sample_jobs(companies).
CallGenerateSampleJobs ==
    /\ jpc = "ready"
    /\ jobs' = SampleJobs[job_companies][seed].jobs
    /\ jpc' = "returned"
    /\ UNCHANGED <<seed, job_companies, earlier>>
    /\ UNCHANGED <<callVars, mainVars, siteVars, rankVars>>

\* The next run: the generator is set again and a list is passed again.  A
\* behaviour is a call and the call after it, the pair to compare.
NextRun ==
    /\ jpc = "returned"
    /\ ~earlier.ran
    /\ earlier' = [ran |-> TRUE, seed |-> seed, companies |-> job_companies,
                   jobs |-> jobs]
    /\ seed' \in Seeds
    /\ job_companies' \in JobInputs
    /\ jobs' = <<>>
    /\ jpc' = "ready"
    /\ UNCHANGED <<callVars, mainVars, siteVars, rankVars>>

NextJobs ==
    \/ CallGenerateSampleJobs
    \/ NextRun

SpecJobs == InitJobs /\ [][NextJobs]_vars

(***************************************************************************)
(* scraper_v2.py: export_to_json called on a list of its caller's choice   *)
(***************************************************************************)

MaxExport == 3

\* Records a caller may pass: without an id, with an id of the form the
\* export itself gives, with another id, and with an empty id.
ExportPool ==
    {[name |-> "Acme Inc", category |-> "ai"],
     [name |-> "Beta.io", category |-> "dev-tools"],
     [name |-> "Acme Inc", category |-> "ai", id |-> "company-2"],
     [name |-> "Gamma", category |-> "other", id |-> "gamma"],
     [name |-> "Delta", category |-> "fintech", id |-> ""]}

ExportInputs == SeqsUpTo(ExportPool, MaxExport)

\* export_to_json(companies) is about to run on the caller's list.
InitExport ==
    /\ CallIdle
    /\ JobsIdle
    /\ SiteIdle
    /\ RankIdle
    /\ pc = "export"
    /\ feed = 1
    /\ companies = <<>>
    /\ unique_companies \in ExportInputs
    /\ errors = {}
    /\ db = <<>>
    /\ json = [exists |-> FALSE, companies |-> <<>>]

NextExport == ExportToJson

SpecExport == InitExport /\ [][NextExport]_vars

(***************************************************************************)
(* The downstream stages: vc_scraper.main, job_scraper.main and            *)
(* build_site.main, each run as a process of its own over the files the    *)
(* scraper left                                                            *)
(***************************************************************************)

\* vc_scraper.py: the ids of VCS, the list export_vcs_json writes
VCS ==
    <<"yc", "sequoia", "a16z", "accel", "greylock", "founders-fund",
      "lightspeed", "benchmark", "khosla", "nea">>

\* build_site.main: the ids of the VCs it takes when data/vcs.json gives none
DefaultVcs == <<"yc", "sequoia", "a16z">>

\* job_scraper.main: the companies it takes when data/companies.json gives
\* none
SampleCompanies ==
    <<[id |-> "xai", name |-> "xAI", website |-> "https://x.ai"],
      [id |-> "skild", name |-> "Skild AI", website |-> "https://skild.ai"],
      [id |-> "rain", name |-> "Rain", website |-> "https://rain.com"]>>

\* load_companies and load_companies_from_json: the list in the file, []
\* when there is no file
load_companies(file) == IF file.exists THEN file.companies ELSE <<>>

\* load_vcs_from_json
load_vcs_from_json(file) == IF file.exists THEN file.vcs ELSE <<>>

\* Python's `value or default` on a column that may be NULL or empty
OrElse(value, default) == IF value \in {NULL, ""} THEN default ELSE value

DbLimit == 50

DbTaglineLimit == 100

\* load_companies_from_db: the first 50 rows of table funding as company
\* records (amount left out).  No insert sets website or published_date,
\* so both are NULL and the ORDER BY leaves the rows in rowid order.
load_companies_from_db(rows) ==
    LET fetched == Take(rows, DbLimit)
    IN  [i \in 1..Len(fetched) |->
            [name |-> fetched[i].name,
             website |-> NULL,
             round |-> OrElse(fetched[i].round_type, "Unknown"),
             tagline |-> IF fetched[i].description \in {NULL, ""}
                         THEN "Building the future."
                         ELSE Take(fetched[i].description, DbTaglineLimit),
             date |-> NULL]]

\* generate_html: the fields it sets on a company that lacks them
WithDefaults(company) ==
    company @@ [daysAgo |-> "1d ago", category |-> "other", tags |-> <<>>,
                investors |-> <<>>, jobs |-> 10]

\* generate_html: the page, as the companies and VC ids embedded in it
generate_html(list, vcs) ==
    [exists |-> TRUE,
     companies |-> [i \in 1..Len(list) |-> WithDefaults(list[i])],
     vcs |-> vcs]

\* The record scraper_v2.main made of 'Acme Inc: $5M seed' in an earlier
\* run, as export_to_json wrote it and as save_to_database inserted it.
StoredCompanies ==
    ExportAll(<<FeedRecord([title |-> "Acme Inc: $5M seed",
                            summary |-> Str("AI payments")], RSS_FEEDS[1])>>)

\* data/companies.json as the scraper may have left it: never written,
\* holding an empty list, holding the record above.
CompanyFiles ==
    {[exists |-> FALSE, companies |-> <<>>],
     [exists |-> TRUE, companies |-> <<>>],
     [exists |-> TRUE, companies |-> StoredCompanies]}

\* Table funding as the scraper may have left it.
FundingTables == {<<>>, <<FundingRow(StoredCompanies[1])>>}

\* data/jobs.json and index.html as written while the record above was in
\* data/companies.json.
PreviousJobs ==
    [exists |-> TRUE, jobs |-> generate_sample_jobs(StoredCompanies, 0).jobs]

PreviousIndex == generate_html(StoredCompanies, DefaultVcs)

\* What generate_sample_jobs returns for the lists job_scraper.main may
\* pass it, by generator state.
StageJobs ==
    [list \in {StoredCompanies, SampleCompanies} |->
        [g \in Seeds |-> generate_sample_jobs(list, g).jobs]]

\* The stages are about to run over what the scraper and their own earlier
\* runs left.
InitSite ==
    /\ CallIdle
    /\ JobsIdle
    /\ RankIdle
    /\ pc = "idle"
    /\ feed = 1
    /\ companies = <<>>
    /\ unique_companies = <<>>
    /\ errors = {}
    /\ db \in FundingTables
    /\ json \in CompanyFiles
    /\ jobs_json \in {[exists |-> FALSE, jobs |-> <<>>], PreviousJobs}
    /\ vcs_json = [exists |-> FALSE, vcs |-> <<>>]
    /\ index_html \in {[exists |-> FALSE, companies |-> <<>>, vcs |-> <<>>],
                       PreviousIndex}
    /\ stage = "none"

\* vc_scraper.main: export_vcs_json writes VCS.
VcScraperMain ==
    /\ vcs_json' = [exists |-> TRUE, vcs |-> VCS]
    /\ stage' = "vc_scraper"
    /\ UNCHANGED <<jobs_json, index_html>>
    /\ UNCHANGED <<callVars, mainVars, jobVars, rankVars>>

\* job_scraper.main leaving data/jobs.json alone when it loads no company.
JobScraperMain_SkipsWhenEmpty ==
    /\ LET loaded == load_companies(json)
       IN  IF loaded = <<>> THEN jobs_json' = jobs_json
           ELSE \E g \in Seeds :
                    jobs_json' = [exists |-> TRUE, jobs |-> StageJobs[loaded][g]]
    /\ stage' = "job_scraper"
    /\ UNCHANGED <<vcs_json, index_html>>
    /\ UNCHANGED <<callVars, mainVars, jobVars, rankVars>>

\* job_scraper.main, in a process whose generator nothing has seeded: it
\* loads the companies, takes the sample companies when there are none,
\* generates the jobs and writes data/jobs.json.
JobScraperMain ==
    /\ LET loaded == load_companies(json)
           list == IF loaded = <<>> THEN SampleCompanies ELSE loaded
       IN  \E g \in Seeds :
               jobs_json' = [exists |-> TRUE, jobs |-> StageJobs[list][g]]
    /\ stage' = "job_scraper"
    /\ UNCHANGED <<vcs_json, index_html>>
    /\ UNCHANGED <<callVars, mainVars, jobVars, rankVars>>

\* build_site.main: the companies of data/companies.json, those of table
\* funding when there are none, the VCs of data/vcs.json, the default ones
\* when there are none; the page is generated and index.html written.
BuildSiteMain ==
    /\ LET loaded == load_companies(json)
           list == IF loaded = <<>> THEN load_companies_from_db(db)
                   ELSE loaded
           found == load_vcs_from_json(vcs_json)
           vcs == IF found = <<>> THEN DefaultVcs ELSE found
       IN  index_html' = generate_html(list, vcs)
    /\ stage' = "build_site"
    /\ UNCHANGED <<jobs_json, vcs_json>>
    /\ UNCHANGED <<callVars, mainVars, jobVars, rankVars>>

NextSite ==
    \/ VcScraperMain
    \/ JobScraperMain
    \/ BuildSiteMain

SpecSite == InitSite /\ [][NextSite]_vars

(***************************************************************************)
(* The ranker.  Its code is not among the sources; it is modelled from     *)
(* section 4.2 of the specification.                                       *)
(***************************************************************************)

\* The hard filter: a dead, inactive or acquired company, or a record
\* without a name, is not ranked.
ExcludedStatus == {"dead", "inactive", "acquired"}

eligible(company) ==
    /\ Get(company, "name", "") # ""
    /\ Lower(Get(company, "status", "")) \notin ExcludedStatus

\* The two-digit year that ends a batch code such as "S24", -1 when the
\* code does not end in two digits.
BatchYear(batch) ==
    LET n == Len(batch)
        value(c) == CHOOSE d \in 0..9 : ToString(d) = c
    IN  IF n >= 2 /\ SubSeq(batch, n - 1, n - 1) \in Digits
                  /\ SubSeq(batch, n, n) \in Digits
        THEN 10 * value(SubSeq(batch, n - 1, n - 1)) + value(SubSeq(batch, n, n))
        ELSE -1

RecentYear == 23

ModeratelyRecentYear == 20

\* The additive score of section 4.2
score(company) ==
    LET size == Get(company, "teamSize", 0)
        funding_stage == Lower(Get(company, "stage", ""))
        year == BatchYear(Get(company, "batch", ""))
    IN    (IF Get(company, "isHiring", FALSE) THEN 20 ELSE 0)
        + (IF Get(company, "topCompany", FALSE) THEN 10 ELSE 0)
        + (IF size >= 100 THEN 5 ELSE IF size >= 20 THEN 3
           ELSE IF size >= 5 THEN 1 ELSE 0)
        + (IF Contains("series", funding_stage)
              \/ Contains("growth", funding_stage)
           THEN 5 ELSE 0)
        + (IF year >= RecentYear THEN 3
           ELSE IF year >= ModeratelyRecentYear THEN 1 ELSE 0)

\* The records that pass the hard filter, in their order
RECURSIVE Eligible(_)
Eligible(list) ==
    IF list = <<>> THEN <<>>
    ELSE (IF eligible(Head(list)) THEN <<Head(list)>> ELSE <<>>)
         \o Eligible(Tail(list))

\* company put into a list sorted by descending score, in front of the
\* records of equal score
InsertByScore_BeforeEqual(sorted, company) ==
    LET before == {i \in 1..Len(sorted) : score(sorted[i]) > score(company)}
        k == Cardinality(before)
    IN  SubSeq(sorted, 1, k) \o <<company>> \o SubSeq(sorted, k + 1, Len(sorted))

\* company put into a list sorted by descending score, behind the records
\* of equal score (the sort is stable)
InsertByScore(sorted, company) ==
    LET before == {i \in 1..Len(sorted) : score(sorted[i]) >= score(company)}
        k == Cardinality(before)
    IN  SubSeq(sorted, 1, k) \o <<company>> \o SubSeq(sorted, k + 1, Len(sorted))

RECURSIVE SortByScore(_, _)
SortByScore(list, sorted) ==
    IF list = <<>> THEN sorted
    ELSE SortByScore(Tail(list), InsertByScore(sorted, Head(list)))

\* The ranker: filter, sort by descending score, keep the first n
rank_companies(list, n) == Take(SortByScore(Eligible(list), <<>>), n)

MaxRecords == 3

MaxLimit == 3

\* Candidates: the example of the specification (score 30), two records of
\* score 1, one with a recent batch, a dead company that is hiring, and a
\* record without a name.
CandidatePool ==
    {[name |-> "Acme", teamSize |-> 150, isHiring |-> TRUE,
      stage |-> "Series B", status |-> "active"],
     [name |-> "Beta", teamSize |-> 10, stage |-> "Seed"],
     [name |-> "Zeta", teamSize |-> 5],
     [name |-> "Delta", teamSize |-> 25, batch |-> "S24"],
     [name |-> "Gamma", isHiring |-> TRUE, topCompany |-> TRUE,
      status |-> "Dead"],
     [teamSize |-> 200, topCompany |-> TRUE]}

RankInputs == SeqsUpTo(CandidatePool, MaxRecords)

\* The ranker is about to be called.
InitRank ==
    /\ CallIdle
    /\ MainIdle
    /\ JobsIdle
    /\ SiteIdle
    /\ records \in RankInputs
    /\ limit \in 0..MaxLimit
    /\ ranked = <<>>
    /\ rpc = "ready"

\* The whole call.
CallRank ==
    /\ rpc = "ready"
    /\ ranked' = rank_companies(records, limit)
    /\ rpc' = "returned"
    /\ UNCHANGED <<records, limit>>
    /\ UNCHANGED <<callVars, mainVars, jobVars, siteVars>>

NextRank == CallRank

SpecRank == InitRank /\ [][NextRank]_vars

(***************************************************************************)
(* scraper_v2.main from its deduplication pass on, over a combined list    *)
(* of the scrapers' choosing                                               *)
(***************************************************************************)

MaxCombined == 3

\* Records the scrapers may hand to main: well-formed ones, two of them of
\* the same lower-cased name, and a malformed one that has no name.
RecordPool ==
    {[name |-> "Acme Inc", round |-> "Seed", tagline |-> "AI payments",
      category |-> "ai", source |-> RSS_FEEDS[1]],
     [name |-> "acme inc", round |-> "Seed", tagline |-> "",
      category |-> "other", source |-> "startups.gallery"],
     [name |-> "Beta.io", round |-> "Funding", tagline |-> "solar",
      category |-> "climate", source |-> RSS_FEEDS[2]],
     [round |-> "Series A", tagline |-> "robots", category |-> "ai",
      source |-> RSS_FEEDS[2]]}

CombinedLists == SeqsUpTo(RecordPool, MaxCombined)

\* The scrapers have returned and main is about to deduplicate.
InitRecords ==
    /\ CallIdle
    /\ JobsIdle
    /\ SiteIdle
    /\ RankIdle
    /\ pc = "dedup"
    /\ feed = 1
    /\ companies \in CombinedLists
    /\ unique_companies = <<>>
    /\ errors = {}
    /\ db = <<>>
    /\ json = [exists |-> FALSE, companies |-> <<>>]

NextRecords ==
    \/ Dedup
    \/ SaveToDatabase
    \/ ExportToJson

SpecRecords == InitRecords /\ [][NextRecords]_vars

(***************************************************************************)
(* Claims about the classifiers, checked under SpecCall                    *)
(***************************************************************************)

CompanyReturned == fn = "categorize_company" /\ ret # Pending

DepartmentReturned == fn = "categorize_department" /\ ret # Pending

\* The categories, by index in the table, one of whose keywords occurs in
\* the (lower-cased) text.
CategoriesIn(text_lower) ==
    {i \in 1..Len(categories) :
        \E kw \in Range(categories[i].keywords) : Contains(kw, text_lower)}

\* The keyword lists of categorize_department, by index, one of whose
\* keywords occurs in the (lower-cased) title.
ListsIn(title_lower) ==
    {i \in 1..Len(departments) :
        \E kw \in Range(departments[i].keywords) : Contains(kw, title_lower)}

\* C1: categorize_company applied to text equal to exactly one keyword of
\* its table returns the category that keyword is listed under.
C1_KeywordReturnsItsCategory ==
    \A i \in 1..Len(categories) : \A kw \in Range(categories[i].keywords) :
        (CompanyReturned /\ arg = Str(kw)) => ret = categories[i].category

\* The table order the claims name.
CategoryOrder == <<"ai", "fintech", "health", "climate", "dev-tools">>

\* C2: when the text holds keywords of two or more categories,
\* categorize_company returns the one that comes first in the order ai,
\* fintech, health, climate, dev-tools, wherever the keywords stand in the
\* text.
C2_EarlierCategoryWins ==
    (CompanyReturned /\ arg.present) =>
        LET found == CategoriesIn(Lower(arg.text))
        IN  Cardinality(found) >= 2 =>
              /\ \A i \in 1..Len(categories) : categories[i].category = CategoryOrder[i]
              /\ ret = CategoryOrder[Min(found)]

\* A text in which the keyword of the later category stands first.
C2_Witness ==
    /\ CompanyReturned
    /\ arg = Str("solar" \o "crypto")
    /\ CategoriesIn(arg.text) = {2, 4}
    /\ ret = "fintech"

CompanyLabels == {"ai", "fintech", "health", "climate", "dev-tools", "other"}

\* C3: for every text categorize_company returns one label of the fixed
\* set, and 'other' exactly when the lower-cased text holds no keyword.
C3_OneLabelOtherIffNoKeyword ==
    (CompanyReturned /\ arg.present) =>
        LET text_lower == Lower(arg.text)
        IN  /\ ret \in CompanyLabels
            /\ ret = "other" <=>
                 ~ \E kw \in CompanyKeywords : Contains(kw, text_lower)

\* An upper-case keyword is classified, a text without keyword is 'other'.
C3_Witness ==
    /\ CompanyReturned
    /\ \/ arg = Str("AI" \o "xyz") /\ ret = "ai"
       \/ arg = Str("xyz" \o "-") /\ ret = "other"

DefaultLabel(f) == IF f = "categorize_company" THEN "other" ELSE "engineering"

\* C4: on empty text and on missing text both classifiers return their
\* default label ('other', 'engineering') and do not raise.
C4_EmptyOrMissingGivesDefault ==
    (ret # Pending /\ (~arg.present \/ arg.text = "")) => ret = DefaultLabel(fn)

\* C5: categorize_department applied to a title equal to exactly one
\* keyword of its lists returns the department of that list (the marketing
\* list and the sales list both give 'sales').
C5_KeywordReturnsItsDepartment ==
    \A i \in 1..Len(departments) : \A kw \in Range(departments[i].keywords) :
        (DepartmentReturned /\ arg = Str(kw)) => ret = departments[i].department

DepartmentLabels == {"engineering", "product", "design", "sales", "operations"}

\* The departments of the lists in the order engineering, product, design,
\* sales/BD, marketing, operations.
ListOrder == <<"engineering", "product", "design", "sales", "sales", "operations">>

\* C6: categorize_department returns one of the five labels: 'engineering'
\* when no keyword matches, otherwise the department of the earliest
\* matching list.
C6_OneLabelEarliestListWins ==
    (DepartmentReturned /\ arg.present) =>
        LET found == ListsIn(Lower(arg.text))
        IN  /\ ret \in DepartmentLabels
            /\ \A i \in 1..Len(departments) : departments[i].department = ListOrder[i]
            /\ found = {} => ret = "engineering"
            /\ found # {} => ret = ListOrder[Min(found)]

\* A title matching the operations list first and the design list second.
C6_Witness ==
    /\ DepartmentReturned
    /\ arg = Str("finance" \o "ux")
    /\ ListsIn(arg.text) = {3, 6}
    /\ ret = "design"

(***************************************************************************)
(* Claims about the deduplication pass of scraper_v2.main, checked under   *)
(* Spec                                                                    *)
(***************************************************************************)

\* The deduplication pass of the current run has run.
Deduped == pc \in {"save", "export", "done"}

\* The lower-cased names of a list of records, place by place.
LowerNames(list) == [i \in 1..Len(list) |-> Lower(list[i].name)]

\* C7: the deduplicated list holds no two records whose names are equal
\* after lower-casing.
C7_NoTwoEqualLowerNames ==
    Deduped =>
        LET kept == LowerNames(unique_companies)
        IN  \A i, j \in 1..Len(kept) : i # j => kept[i] # kept[j]

\* The combined list held two spellings of a name and another name.
C7_Witness ==
    /\ Deduped
    /\ Len(unique_companies) >= 2
    /\ \E i, j \in 1..Len(companies) :
          /\ i # j
          /\ companies[i].name # companies[j].name
          /\ Lower(companies[i].name) = Lower(companies[j].name)

\* kept is the record scraped, whatever export_to_json set on it later.
IsRecord(kept, scraped) ==
    \A f \in DOMAIN scraped : f \in DOMAIN kept /\ kept[f] = scraped[f]

\* C8: the deduplicated list is a subsequence of the combined list in the
\* same order, made of the first record of each lower-cased name, and every
\* lower-cased name of the combined list is in it.
C8_FirstOccurrencesInOrder ==
    Deduped =>
        LET all == LowerNames(companies)
            kept == LowerNames(unique_companies)
            \* the place in the combined list of the first record named as
            \* the k-th record kept
            first == [k \in 1..Len(kept) |->
                        Min({i \in 1..Len(all) : all[i] = kept[k]} \cup {Len(all) + 1})]
        IN  /\ Range(all) = Range(kept)
            /\ \A k \in 1..Len(kept) :
                  /\ first[k] <= Len(all)
                  /\ IsRecord(unique_companies[k], companies[first[k]])
            /\ \A k, l \in 1..Len(kept) : k < l => first[k] < first[l]

\* 'Acme Inc' followed by 'acme inc' gives exactly the 'Acme Inc' record.
C8_Witness ==
    /\ Deduped
    /\ Len(companies) = 2
    /\ companies[1].name = "Acme Inc"
    /\ companies[2].name = "acme inc"
    /\ Len(unique_companies) = 1
    /\ IsRecord(unique_companies[1], companies[1])

\* C9: the deduplication pass applied to its own output gives that output.
C9_DedupIdempotent ==
    Deduped =>
        LET again == Deduplicate(unique_companies)
        IN  ~again.raised /\ again.unique = unique_companies

\* The pass had something to drop and kept more than one record.
C9_Witness ==
    /\ Deduped
    /\ Len(unique_companies) >= 2
    /\ Len(unique_companies) < Len(companies)

\* The sources in the order main scrapes them.
SourceOrder == RSS_FEEDS \o <<"startups.gallery">>

Rank(source) == CHOOSE i \in 1..Len(SourceOrder) : SourceOrder[i] = source

\* C10: in the combined list the records of the RSS feeds, feed by feed in
\* RSS_FEEDS order, come before those of startups.gallery, and of the
\* sources reporting a lower-cased name the earliest one's record is kept.
C10_SourcesInPriorityOrder ==
    LET rank == [i \in 1..Len(companies) |-> Rank(companies[i].source)]
    IN  /\ \A i, j \in 1..Len(companies) : i < j => rank[i] <= rank[j]
        /\ Deduped =>
              LET all == LowerNames(companies)
                  kept == LowerNames(unique_companies)
              IN  \A k \in 1..Len(kept) : \A i \in 1..Len(all) :
                      all[i] = kept[k] => Rank(unique_companies[k].source) <= rank[i]

\* The second feed and startups.gallery report the same name, the first feed
\* does not: the record of the second feed is kept.
C10_Witness ==
    /\ Deduped
    /\ \E k \in 1..Len(unique_companies) : \E i \in 1..Len(companies) :
          /\ unique_companies[k].source = RSS_FEEDS[2]
          /\ companies[i].source = "startups.gallery"
          /\ Lower(companies[i].name) = Lower(unique_companies[k].name)

(***************************************************************************)
(* Claims about generate_sample_jobs, checked under SpecJobs               *)
(***************************************************************************)

JobsReturned == jpc = "returned"

\* The call before this one was made with the same generator state and the
\* same list.
SameSeedSameList ==
    /\ JobsReturned
    /\ earlier.ran
    /\ earlier.seed = seed
    /\ earlier.companies = job_companies

NumJobsDrawn == SampleJobs[job_companies][seed].num_jobs

RECURSIVE SumUpTo(_, _)
\* counts[1] + ... + counts[i]
SumUpTo(counts, i) ==
    IF i = 0 THEN 0 ELSE SumUpTo(counts, i - 1) + counts[i]

\* C12: generate_sample_jobs emits between 2 and 4 jobs for each company of
\* its argument, company after company: the jobs returned fall into one
\* block per company, each of 2 to 4 jobs carrying that company's id and
\* url, so that n companies get between 2*n and 4*n jobs and an empty list
\* gets none.
C12_TwoToFourJobsPerCompany ==
    JobsReturned =>
        LET n == Len(job_companies)
            counts == NumJobsDrawn
        IN  /\ Len(counts) = n
            /\ \A i \in 1..n : counts[i] \in 2..4
            /\ Len(jobs) = SumUpTo(counts, n)
            /\ \A i \in 1..n :
                  \A k \in (SumUpTo(counts, i - 1) + 1)..SumUpTo(counts, i) :
                      /\ jobs[k].companyId = IdOf(job_companies[i])
                      /\ jobs[k].url
                           = Get(job_companies[i], "website", "#") \o "/careers"
            /\ 2 * n <= Len(jobs)
            /\ Len(jobs) <= 4 * n
            /\ (job_companies = <<>> => jobs = <<>>)

\* One company was given 2 jobs and the other 4.
C12_Witness ==
    /\ JobsReturned
    /\ Len(job_companies) = 2
    /\ \E i, j \in 1..2 : NumJobsDrawn[i] = 2 /\ NumJobsDrawn[j] = 4

\* The call was made on an empty list.
C12_WitnessEmpty ==
    /\ JobsReturned
    /\ job_companies = <<>>
    /\ jobs = <<>>

Hiring(company) == Get(company, "isHiring", FALSE)

\* C13, as claimed: in a call of generate_sample_jobs every company flagged
\* as hiring is given more jobs than every company of the list that is not.
C13_HiringGivenMoreJobs ==
    JobsReturned =>
        \A i, j \in 1..Len(job_companies) :
            (Hiring(job_companies[i]) /\ ~Hiring(job_companies[j]))
                => NumJobsDrawn[i] > NumJobsDrawn[j]

\* The company without its hiring flag
Unflagged(company) ==
    [key \in DOMAIN company \ {"isHiring"} |-> company[key]]

\* The two calls were made with the same seed over lists that are the same
\* but for the hiring flags.
SameButFlags ==
    /\ JobsReturned
    /\ earlier.ran
    /\ earlier.seed = seed
    /\ Len(earlier.companies) = Len(job_companies)
    /\ \A i \in 1..Len(job_companies) :
          Unflagged(earlier.companies[i]) = Unflagged(job_companies[i])

\* C13, amended: the number of jobs of a company does not depend on its
\* hiring flag.  Every company, flagged or not, is given 2 to 4 jobs, and
\* two calls with the same seed over lists that differ only in the hiring
\* flags return the same jobs.
C13_HiringFlagNotRead ==
    /\ JobsReturned =>
          \A i \in 1..Len(job_companies) :
              Hiring(job_companies[i]) => NumJobsDrawn[i] \in 2..4
    /\ SameButFlags => jobs = earlier.jobs

\* A company is flagged as hiring in one call and not in the other, and in
\* this call the flagged company was given 2 jobs, the other one 4.
C13_Witness ==
    /\ SameButFlags
    /\ Len(job_companies) = 2
    /\ Hiring(job_companies[1])
    /\ ~Hiring(job_companies[2])
    /\ ~Hiring(earlier.companies[1])
    /\ NumJobsDrawn[1] = 2
    /\ NumJobsDrawn[2] = 4

\* C14: every job that generate_sample_jobs emits carries as companyId the
\* id of a company of the list, companies without an 'id' field included.
C14_JobReferencesACompany ==
    JobsReturned =>
        \A k \in 1..Len(jobs) :
            /\ jobs[k].companyId.present
            /\ \E i \in 1..Len(job_companies) :
                  /\ "id" \in DOMAIN job_companies[i]
                  /\ jobs[k].companyId.text = job_companies[i].id

(***************************************************************************)
(* Claims about export_to_json, checked under SpecExport                   *)
(***************************************************************************)

ExportReturned == pc = "done" /\ json.exists

\* C15: after export_to_json has run on a list of company records, some of
\* which may carry an id already, every record of the exported collection
\* has an id and no two of them have the same id.
C15_ExportedIdsUnique ==
    ExportReturned =>
        LET out == json.companies
        IN  /\ \A i \in 1..Len(out) : "id" \in DOMAIN out[i] /\ out[i].id # ""
            /\ \A i, j \in 1..Len(out) : out[i].id = out[j].id => i = j

(***************************************************************************)
(* Claims about failures and repeated runs of scraper_v2.main, checked     *)
(* under Spec                                                              *)
(***************************************************************************)

\* C16: a source whose fetching or parsing failed during the run (its
\* except branch was taken) has no record in the combined list, and its
\* failure does not end the run: main goes on to the remaining sources.
C16_FailedSourceContributesNothing ==
    /\ \A i \in 1..Len(companies) : companies[i].source \notin errors
    /\ errors # {} => pc \in {"rss", "gallery", "dedup", "save", "export", "done"}

\* The step of main after the scrapers when they returned no record, and
\* any step that writes to table funding or to data/companies.json.
NoRecordsNothingWritten ==
    /\ (pc = "dedup" /\ companies = <<>>) =>
          /\ pc' = "done"
          /\ unique_companies' = <<>>
          /\ db' = db
          /\ json' = json
    /\ (db' # db \/ json' # json) =>
          /\ pc \in {"save", "export"}
          /\ unique_companies # <<>>

\* C17: in a run of main in which no source produced a record, main goes
\* from the scrapers straight to its return with an empty list, and neither
\* save_to_database nor export_to_json runs: table funding and
\* data/companies.json change only in a run that has records.
C17_NoRecordsNoOutput == [][NoRecordsNothingWritten]_vars

\* A run without records has returned, and the rows and the file an earlier
\* run wrote are there.
C17_Witness ==
    /\ pc = "done"
    /\ companies = <<>>
    /\ unique_companies = <<>>
    /\ db # <<>>
    /\ json.exists
    /\ json.companies # <<>>

\* C19: after a run of main that had records, data/companies.json and
\* table funding each hold exactly the deduplicated records of that run,
\* none of an earlier run, so no lower-cased name is stored twice.
C19_StoresHoldLastRunOnly ==
    (pc = "done" /\ unique_companies # <<>>) =>
        /\ json.exists
        /\ json.companies = unique_companies
        /\ Len(db) = Len(unique_companies)
        /\ \A i \in 1..Len(db) : db[i] = FundingRow(unique_companies[i])
        /\ LET stored == [i \in 1..Len(db) |-> Lower(db[i].name)]
           IN  \A i, j \in 1..Len(db) : stored[i] = stored[j] => i = j

(***************************************************************************)
(* Claims about the downstream stages, checked under SpecSite              *)
(***************************************************************************)

\* data/companies.json is missing or holds an empty company list.
NoCompaniesInJson == load_companies(json) = <<>>

\* Nor does table funding hold a row.
NoCompaniesAtAll == NoCompaniesInJson /\ db = <<>>

\* C18, as claimed: while no company data is available, data/jobs.json and
\* index.html stay as they were before the stages ran (absent, or as an
\* earlier run wrote them): job_scraper.main and build_site.main write
\* neither.
C18_NoDataNoOutput ==
    /\ NoCompaniesInJson =>
          jobs_json \in {[exists |-> FALSE, jobs |-> <<>>], PreviousJobs}
    /\ NoCompaniesAtAll =>
          index_html \in {[exists |-> FALSE, companies |-> <<>>, vcs |-> <<>>],
                          PreviousIndex}

SampleIds == {Str(SampleCompanies[i].id) : i \in 1..Len(SampleCompanies)}

\* C18, amended: when no company data is available the stages write their
\* files all the same.  After job_scraper.main has run, data/jobs.json holds
\* 2 to 4 jobs for each of the three sample companies xai, skild and rain;
\* after build_site.main has run, index.html is a page with an empty
\* company list.
C18_NoDataSampleOutput ==
    /\ (stage = "job_scraper" /\ NoCompaniesInJson) =>
          /\ jobs_json.exists
          /\ Len(jobs_json.jobs) \in (2 * Len(SampleCompanies))..(4 * Len(SampleCompanies))
          /\ \A k \in 1..Len(jobs_json.jobs) :
                jobs_json.jobs[k].companyId \in SampleIds
          /\ \A id \in SampleIds : \E k \in 1..Len(jobs_json.jobs) :
                jobs_json.jobs[k].companyId = id
    /\ (stage = "build_site" /\ NoCompaniesAtAll) =>
          /\ index_html.exists
          /\ index_html.companies = <<>>
          /\ index_html.vcs # <<>>

\* Both stages have run with no company data over files an earlier run had
\* written: both files are rewritten.
C18_Witness ==
    /\ stage = "build_site"
    /\ NoCompaniesAtAll
    /\ jobs_json.exists
    /\ jobs_json # PreviousJobs
    /\ jobs_json.jobs[1].companyId = Str("xai")
    /\ index_html.exists
    /\ index_html.companies = <<>>

(***************************************************************************)
(* Claims about the ranker, checked under SpecRank                         *)
(***************************************************************************)

RankReturned == rpc = "returned"

\* The places in the input of the records that pass the hard filter
EligiblePlaces == {i \in 1..Len(records) : eligible(records[i])}

\* The ways of reading the output as records of the input: the place in
\* the input that each record returned was taken from, no place twice.
Readings ==
    {at \in [1..Len(ranked) -> 1..Len(records)] :
        /\ \A k \in 1..Len(ranked) : ranked[k] = records[at[k]]
        /\ \A k, m \in 1..Len(ranked) : at[k] = at[m] => k = m}

\* C20: the ranker returns min(limit, number of eligible records) records,
\* each an eligible record of the input (not dead, inactive or acquired,
\* and named), in descending order of score, records of equal score in
\* their input order, and no eligible record left out scores higher than,
\* or scores the same as and precedes in the input, a record returned; an
\* empty input gives an empty list.
C20_TopEligibleByScore ==
    RankReturned =>
        /\ Len(ranked) = (IF limit < Cardinality(EligiblePlaces) THEN limit
                          ELSE Cardinality(EligiblePlaces))
        /\ \A k \in 1..Len(ranked) : eligible(ranked[k])
        /\ \E at \in Readings :
              /\ \A k \in 1..Len(ranked) : at[k] \in EligiblePlaces
              /\ \A k, m \in 1..Len(ranked) :
                    k < m =>
                       \/ score(ranked[k]) > score(ranked[m])
                       \/ score(ranked[k]) = score(ranked[m]) /\ at[k] < at[m]
              /\ \A u \in EligiblePlaces \ {at[k] : k \in 1..Len(ranked)} :
                    \A k \in 1..Len(ranked) :
                       \/ score(records[u]) < score(ranked[k])
                       \/ score(records[u]) = score(ranked[k]) /\ at[k] < u
        /\ (records = <<>> => ranked = <<>>)

\* Three eligible records, two of them of equal score, one excluded record
\* of a higher score: the limit cuts between the two of equal score.
C20_Witness ==
    /\ RankReturned
    /\ records = <<[name |-> "Beta", teamSize |-> 10, stage |-> "Seed"],
                   [name |-> "Gamma", isHiring |-> TRUE, topCompany |-> TRUE,
                    status |-> "Dead"],
                   [name |-> "Zeta", teamSize |-> 5]>>
    /\ limit = 1
    /\ ranked = <<[name |-> "Beta", teamSize |-> 10, stage |-> "Seed"]>>

\* The example of the specification: Acme scores 30 and is returned first.
C20_WitnessExample ==
    /\ RankReturned
    /\ Len(records) = 3
    /\ limit = 2
    /\ Len(ranked) = 2
    /\ ranked[1].name = "Acme"
    /\ score(ranked[1]) = 30
    /\ records[1].name # "Acme"

(***************************************************************************)
(* Claims about a malformed record in main, checked under SpecRecords      *)
(***************************************************************************)

WellFormed(company) == "name" \in DOMAIN company

\* The combined list holds exactly one record without a name.
OneMalformed ==
    Cardinality({i \in 1..Len(companies) : ~WellFormed(companies[i])}) = 1

\* list holds a record of the lower-cased name of company.
Holds(list, company) ==
    \E k \in 1..Len(list) : Lower(list[k].name) = Lower(company.name)

CatalogOf(dept) ==
    UNION {Range(sample_titles[i].titles) :
              i \in {j \in 1..Len(sample_titles) : sample_titles[j].dept = dept}}

\* C22: every job generate_sample_jobs emits has a title of the catalog of
\* its department, and categorize_department applied to that title returns
\* that department.
C22_GeneratorAndClassifierAgree ==
    JobsReturned =>
        \A k \in 1..Len(jobs) :
            /\ jobs[k].title \in CatalogOf(jobs[k].department)
            /\ categorize_department(Str(jobs[k].title)) = jobs[k].department

(***************************************************************************)
(* Claims about parse_round_type, checked under SpecRound                  *)
(***************************************************************************)

RoundReturned == fn = "parse_round_type" /\ arg.present /\ ret # Pending

\* C23: parse_round_type applied to a text equal, whatever the case of its
\* letters, to a label of its round list returns that label, and applied to
\* a text in which no label occurs returns 'Funding'.
C23_EachLabelRecognised ==
    RoundReturned =>
        LET text_lower == Lower(arg.text)
        IN  /\ \A i \in 1..Len(rounds) :
                  text_lower = Lower(rounds[i]) => ret = rounds[i]
            /\ (\A i \in 1..Len(rounds) : ~Contains(Lower(rounds[i]), text_lower))
                  => ret = "Funding"

====
